---------------------------- MODULE Spec2Model ----------------------------
(***************************************************************************)
(* A model of src/utils/opt_in_checker.py: the opt-in dialog, the ISIP     *)
(* record file with its directory, and the gating check.                  *)
(*                                                                         *)
(* Strings are sequences of one-character strings, so that lower(),       *)
(* strip() and readline() are computed and not assumed.  Time is counted  *)
(* in whole seconds since the dialog's start_time; it advances only       *)
(* inside input_with_timeout, the only blocking call.                      *)
(***************************************************************************)
EXTENDS Integers, Sequences, FiniteSets, TLC

(***************************************************************************)
(* Enumerations (lines 16-25).  A Python Enum member equals only itself:  *)
(* members of different classes differ even when name and value agree.    *)
(***************************************************************************)
ISIPCheckResult(n) ==
    [cls |-> "ISIPCheckResult", name |-> n,
     value |-> CASE n = "DECLINED" -> 0 [] n = "ACCEPTED" -> 1 [] OTHER -> 2]

DialogResult(n) ==
    [cls |-> "DialogResult", name |-> n,
     value |-> CASE n = "DECLINED" -> 0 [] n = "ACCEPTED" -> 1 [] OTHER -> 2]

ISIPCheckResults == {ISIPCheckResult(n) : n \in {"DECLINED", "ACCEPTED", "NO_FILE"}}

DialogResults == {DialogResult(n) : n \in {"DECLINED", "ACCEPTED", "TIMEOUT_REACHED"}}

\* The argument slot of an operation that takes none.
NoArg == [cls |-> "None", name |-> "None", value |-> 0]

(***************************************************************************)
(* Bounds and program constants.                                           *)
(***************************************************************************)
\* OptInChecker.dialog_timeout, in seconds (line 29).
dialog_timeout == 50

\* The blocking granularity of input_with_timeout: a call returns at most
\* this many seconds after its timeout.
Granularity == 2

\* Processes sharing the record file in the concurrent specification.
NumProcs == 2

\* The longest answer typed, in the specification of _ask_opt_in alone.
MaxAnswerLen == 4

(***************************************************************************)
(* Text: str.lower(), str.strip(), file.readline().                        *)
(***************************************************************************)
Whitespace == {" ", "\n", "\t"}

LowerChar(c) ==
    CASE c = "Y" -> "y" [] c = "E" -> "e" [] c = "S" -> "s"
      [] c = "N" -> "n" [] c = "O" -> "o" [] OTHER -> c

Lower(s) == [i \in 1..Len(s) |-> LowerChar(s[i])]

RECURSIVE LStrip(_)
LStrip(s) == IF s # <<>> /\ Head(s) \in Whitespace THEN LStrip(Tail(s)) ELSE s

RECURSIVE RStrip(_)
RStrip(s) ==
    IF s # <<>> /\ s[Len(s)] \in Whitespace
    THEN RStrip(SubSeq(s, 1, Len(s) - 1)) ELSE s

Strip(s) == RStrip(LStrip(s))

\* readline(): the text up to and including the first newline.
RECURSIVE ReadLine(_)
ReadLine(s) ==
    IF s = <<>> THEN <<>>
    ELSE IF Head(s) = "\n" THEN <<"\n">>
    ELSE <<Head(s)>> \o ReadLine(Tail(s))


(***************************************************************************)
(* The file system as the code sees it.  A state fs is a record            *)
(*   base : the base directory (Path.home() or $LOCALAPPDATA):             *)
(*          "dir" writable, "dir_ro" not writable, "missing" no directory  *)
(*   full : the disk is full: data cannot be flushed to a file             *)
(*   sub  : the path base/intel: "absent", "file" (a removable             *)
(*          non-directory), "locked" (a non-directory that cannot be       *)
(*          removed), "link" (a dangling symbolic link), "dir", "dir_ro"   *)
(*   isip : the path base/intel/openvino_telemetry: kind "absent", "file"  *)
(*          or "dir"; content; r and w, the access the process has         *)
(* base, full and the access bits are the environment: no code of the      *)
(* module changes them.                                                    *)
(***************************************************************************)
BaseKinds == {"dir", "dir_ro", "missing"}

SubKinds == {"absent", "file", "locked", "link", "dir", "dir_ro"}

AbsentFile == [kind |-> "absent", content |-> <<>>, r |-> TRUE, w |-> TRUE]

\* A file as open(path, 'w') creates it.
NewFile == [kind |-> "file", content |-> <<>>, r |-> TRUE, w |-> TRUE]

\* What a record file may hold before the program runs: nothing, a valid
\* answer, an answer with surrounding whitespace, and malformed text.
InitContents ==
    { <<>>, <<"0">>, <<"1">>, <<"1", "\n">>, <<" ", "1", " ">>,
      <<"\n", "1">>, <<"1", "0">>, <<"0", "\n", "1">>,
      <<"m", "a", "y", "b", "e">> }

\* os.path.isdir(isip_dir), line 159.
SubIsDir(fs) == fs.sub \in {"dir", "dir_ro"}

\* os.path.exists(isip_dir), lines 160, 170, 175: false for a dangling link.
SubExists(fs) == fs.sub \in {"file", "locked", "dir", "dir_ro"}

\* An access test that takes every existing path for a writable one.
SubWritableIfExists(fs) == SubExists(fs)

\* os.access(isip_dir, os.W_OK), line 181.
SubWritable(fs) == fs.sub = "dir"

\* An existence test that takes an empty file for no file.
IsipNonEmpty(fs) ==
    SubIsDir(fs) /\ fs.isip.kind # "absent" /\ fs.isip.content # <<>>

\* os.path.exists(self.isip_file()), lines 194 and 283.
IsipExists(fs) == SubIsDir(fs) /\ fs.isip.kind # "absent"

\* isip_file_base_dir (lines 85-106) raises unless the base directory is one.
BaseDirRaises(fs) == fs.base = "missing"

\* A test for DECLINED in place of the test for ACCEPTED.
ResultByteUnlessDeclined(result) ==
    IF result = ISIPCheckResult("DECLINED") THEN "0" ELSE "1"

\* The byte update_result writes (lines 203-206): "1" for
\* ISIPCheckResult.ACCEPTED and "0" for every other object.
ResultByte(result) == IF result = ISIPCheckResult("ACCEPTED") THEN "1" ELSE "0"

\* The record file opened for appending.
WriteModeAppend == "a"

\* The mode update_result opens the record file in (line 202), and the
\* mode create_new_isip_file opens it in (line 136).
WriteMode == "w"

CreateMode == "w"

\* open(path, mode) on an existing file: 'w' truncates it, 'a' does not.
Opened(mode, content) == IF mode = "w" THEN <<>> ELSE content

\* file.write(b) through a handle opened in mode (lines 204, 206): with
\* 'w' the byte goes to offset 0, over whatever another handle wrote
\* meanwhile; with 'a' it goes to the end.
Written(mode, content, b) ==
    IF mode = "w"
    THEN IF Len(content) <= 1 THEN <<b>> ELSE <<b>> \o Tail(content)
    ELSE content \o <<b>>

\* os.stat(path).st_size (line 216); a directory has a nonzero size.
FileSize(f) == IF f.kind = "dir" THEN 1 ELSE Len(f.content)

\* A gate that forgets the notebook probe.
GateResultNoNotebook(leader, tty, nb) ==
    IF ~leader THEN "DECLINED"
    ELSE IF ~tty THEN "DECLINED"
    ELSE "NO_FILE"

\* The result of check when no record file exists (lines 284-289).
GateResult(leader, tty, nb) ==
    IF ~leader THEN "DECLINED"
    ELSE IF ~tty \/ nb THEN "DECLINED"
    ELSE "NO_FILE"

\* The content returned by get_info_from_isip when it fails: {} (lines 227, 232).
NoContent == <<"{}">>

\* A check that fails open on unexpected content.
ContentResultFailOpen(content) ==
    IF content = <<"0">> THEN "DECLINED" ELSE "ACCEPTED"

\* The result of check from the content read (lines 293-298).
ContentResult(content) ==
    IF content = <<"1">> THEN "ACCEPTED"
    ELSE IF content = <<"0">> THEN "DECLINED"
    ELSE "DECLINED"


(***************************************************************************)
(* One call of a method of OptInChecker is a frame: the method called      *)
(* (op), its argument, the environment probes the call would read, the     *)
(* line it is at (pc, "u194" for line 194 of update_result), its locals    *)
(* and, once pc = "done", what it returned (ret, "raise" for an            *)
(* exception that escapes); found is the outcome of the existence test of   *)
(* lines 194 and 283.  Step runs one line that reads or writes the   *)
(* file system; Run runs a call to its end.                                *)
(***************************************************************************)
Ops ==
    {"update_result", "create_new_isip_file", "create_or_check_isip_dir",
     "check", "isip_is_empty", "get_info_from_isip"}

EntryPc(op) ==
    CASE op = "update_result" -> "u194"
      [] op = "create_new_isip_file" -> "d146"
      [] op = "create_or_check_isip_dir" -> "d146"
      [] op = "check" -> "k283"
      [] op = "isip_is_empty" -> "k291"
      [] OTHER -> "g226"

Frame(op, arg, leader, tty, nb) ==
    [op |-> op, arg |-> arg, pc |-> EntryPc(op),
     leader |-> leader, tty |-> tty, nb |-> nb,
     found |-> FALSE, isip_is_dir |-> FALSE, isip_dir_exists |-> FALSE,
     content |-> <<>>, ret |-> "none"]

\* No call yet.
IdleFrame ==
    [Frame("check", NoArg, FALSE, FALSE, FALSE) EXCEPT !.op = "none", !.pc = "idle"]

Bool(b) == IF b THEN "True" ELSE "False"

\* The call returns v; the locals of create_or_check_isip_dir are gone.
Ret(fs, f, v) ==
    [fs |-> fs,
     f |-> [f EXCEPT !.pc = "done", !.ret = v,
                     !.isip_is_dir = FALSE, !.isip_dir_exists = FALSE]]

Goto(fs, f, pc) == [fs |-> fs, f |-> [f EXCEPT !.pc = pc]]

\* create_new_isip_file returns v: to its caller, or into update_result
\* (lines 195-197).
FileReturn(fs, f, v) ==
    IF f.op = "create_new_isip_file" THEN Ret(fs, f, Bool(v))
    ELSE IF v THEN Goto(fs, f, "u197")
    ELSE Ret(fs, f, "False")

\* create_or_check_isip_dir returns v: to its caller, or into
\* create_new_isip_file (lines 133-135).
DirReturn(fs, f, v) ==
    IF f.op = "create_or_check_isip_dir" THEN Ret(fs, f, Bool(v))
    ELSE IF v THEN Goto(fs, f, "c136")
    ELSE FileReturn(fs, f, FALSE)

\* A get_info_from_isip that empties the file it has read.
InfoReturnConsuming(fs, f, ok, content) ==
    IF f.op = "get_info_from_isip"
    THEN Ret([fs EXCEPT !.isip.content = <<>>], [f EXCEPT !.content = content], Bool(ok))
    ELSE Goto([fs EXCEPT !.isip.content = <<>>], [f EXCEPT !.content = content], "k293")

\* get_info_from_isip returns (ok, content): to its caller, or into check
\* (line 292), which drops ok.
InfoReturn(fs, f, ok, content) ==
    IF f.op = "get_info_from_isip"
    THEN Ret(fs, [f EXCEPT !.content = content], Bool(ok))
    ELSE Goto(fs, [f EXCEPT !.content = content], "k293")

\* isip_is_empty returns v: to its caller, or into check (line 291), which
\* falls through to the warning and DECLINED (lines 297-298) on an empty file.
EmptyReturn(fs, f, v) ==
    IF f.op = "isip_is_empty" THEN Ret(fs, f, Bool(v))
    ELSE IF v THEN Ret(fs, f, "DECLINED")
    ELSE Goto(fs, f, "g226")

\* update_result, lines 194-209.
StepUpdateResult(fs, f) ==
    CASE f.pc = "u194" ->
            IF BaseDirRaises(fs) THEN Ret(fs, f, "raise")
            ELSE IF ~IsipExists(fs) THEN Goto(fs, f, "d146")
            ELSE Goto(fs, [f EXCEPT !.found = TRUE], "u197")
      [] f.pc = "u197" ->
            IF fs.isip.kind # "absent" /\ SubIsDir(fs) /\ fs.isip.w
            THEN Goto(fs, f, "u202")
            ELSE Ret(fs, f, "False")
      [] f.pc = "u202" ->
            IF ~SubIsDir(fs) \/ fs.isip.kind = "dir" THEN Ret(fs, f, "False")
            ELSE IF fs.isip.kind = "absent"
            THEN IF fs.sub = "dir"
                 THEN Goto([fs EXCEPT !.isip = NewFile], f, "u204")
                 ELSE Ret(fs, f, "False")
            ELSE IF ~fs.isip.w THEN Ret(fs, f, "False")
            ELSE Goto([fs EXCEPT !.isip.content = Opened(WriteMode, @)], f, "u204")
      [] OTHER -> \* u204: the write reaches the file when the handle closes
            IF fs.full THEN Ret(fs, f, "False")
            ELSE Ret([fs EXCEPT !.isip.content = Written(WriteMode, @, ResultByte(f.arg))],
                     f, "True")

\* create_new_isip_file, lines 133-139 (line 133 is the call of
\* create_or_check_isip_dir, see DirReturn).
StepCreateNewIsipFile(fs, f) ==
    \* c136: open(self.isip_file(), 'w').close()
    IF ~SubIsDir(fs) \/ fs.isip.kind = "dir" THEN FileReturn(fs, f, FALSE)
    ELSE IF fs.isip.kind = "absent"
    THEN IF fs.sub = "dir"
         THEN FileReturn([fs EXCEPT !.isip = NewFile], f, TRUE)
         ELSE FileReturn(fs, f, FALSE)
    ELSE IF fs.isip.w
    THEN FileReturn([fs EXCEPT !.isip.content = Opened(CreateMode, @)], f, TRUE)
    ELSE FileReturn(fs, f, FALSE)


\* create_or_check_isip_dir, lines 146-186.
StepCreateOrCheckIsipDir(fs, f) ==
    CASE f.pc = "d146" -> \* lines 146-156: the base directory
            IF BaseDirRaises(fs) THEN Ret(fs, f, "raise")
            ELSE IF fs.base # "dir" THEN DirReturn(fs, f, FALSE)
            ELSE Goto(fs, f, "d159")
      [] f.pc = "d159" ->
            Goto(fs, [f EXCEPT !.isip_is_dir = SubIsDir(fs)], "d160")
      [] f.pc = "d160" ->
            Goto(fs, [f EXCEPT !.isip_dir_exists = SubExists(fs)], "d163")
      [] f.pc = "d163" -> \* lines 163-168: os.remove of a non-directory
            IF f.isip_dir_exists /\ ~f.isip_is_dir
            THEN IF fs.sub \in {"file", "link"}
                 THEN Goto([fs EXCEPT !.sub = "absent"], f, "d170")
                 ELSE DirReturn(fs, f, FALSE)
            ELSE Goto(fs, f, "d170")
      [] f.pc = "d170" ->
            IF ~SubExists(fs) THEN Goto(fs, f, "d172") ELSE Goto(fs, f, "d181")
      [] f.pc = "d172" -> \* os.mkdir raises when the path is taken
            IF fs.sub = "absent"
            THEN Goto([fs EXCEPT !.sub = "dir"], f, "d175")
            ELSE DirReturn(fs, f, FALSE)
      [] f.pc = "d175" ->
            IF ~SubExists(fs) THEN DirReturn(fs, f, FALSE)
            ELSE Goto(fs, f, "d181")
      [] OTHER -> \* d181, lines 181-186: os.access(isip_dir, os.W_OK)
            DirReturn(fs, f, SubWritable(fs))

\* isip_is_empty (lines 216-218) and get_info_from_isip (lines 226-233).
StepRead(fs, f) ==
    CASE f.pc = "k291" -> \* os.stat raises when there is no such path
            IF BaseDirRaises(fs) \/ ~IsipExists(fs) THEN Ret(fs, f, "raise")
            ELSE EmptyReturn(fs, f, FileSize(fs.isip) = 0)
      [] f.pc = "g226" -> \* os.access(path, os.R_OK)
            IF BaseDirRaises(fs) THEN Ret(fs, f, "raise")
            ELSE IF IsipExists(fs) /\ fs.isip.r THEN Goto(fs, f, "g229")
            ELSE InfoReturn(fs, f, FALSE, NoContent)
      [] OTHER -> \* g229, lines 229-230: open, readline, strip
            IF ~IsipExists(fs) \/ fs.isip.kind = "dir" \/ ~fs.isip.r
            THEN InfoReturn(fs, f, FALSE, NoContent)
            ELSE InfoReturn(fs, f, TRUE, Strip(ReadLine(fs.isip.content)))

\* check, lines 283-298 (lines 291 and 292 are the calls of isip_is_empty
\* and get_info_from_isip, see EmptyReturn and InfoReturn).
StepCheck(fs, f) ==
    CASE f.pc = "k283" ->
            IF BaseDirRaises(fs) THEN Ret(fs, f, "raise")
            ELSE IF ~IsipExists(fs) THEN Goto(fs, f, "k284")
            ELSE Goto(fs, [f EXCEPT !.found = TRUE], "k291")
      [] f.pc = "k284" -> Ret(fs, f, GateResult(f.leader, f.tty, f.nb))
      [] OTHER -> \* k293
            Ret(fs, f, ContentResult(f.content))

\* One step of a running call.
Step(fs, f) ==
    CASE f.pc \in {"u194", "u197", "u202", "u204"} -> StepUpdateResult(fs, f)
      [] f.pc = "c136" -> StepCreateNewIsipFile(fs, f)
      [] f.pc \in {"d146", "d159", "d160", "d163", "d170", "d172", "d175", "d181"} ->
            StepCreateOrCheckIsipDir(fs, f)
      [] f.pc \in {"k291", "g226", "g229"} -> StepRead(fs, f)
      [] OTHER -> StepCheck(fs, f)

\* A call run to its end with no other process in between.
RECURSIVE Run(_, _)
Run(fs, f) ==
    IF f.pc = "done" THEN [fs |-> fs, f |-> f]
    ELSE LET n == Step(fs, f) IN Run(n.fs, n.f)

\* What a call of op returns in fs; for the read-only methods.
Call(fs, op, arg, leader, tty, nb) == Run(fs, Frame(op, arg, leader, tty, nb)).f


(***************************************************************************)
(* The dialog, lines 49-82.                                                *)
(***************************************************************************)
\* What the user may type at a prompt; <<>> is also what input_with_timeout
\* returns when its timeout is reached.
RawAnswers ==
    { <<>>, <<"y">>, <<"Y">>, <<"y", "e", "s">>, <<" ", "Y", "E", "S", "\n">>,
      <<"n">>, <<"N">>, <<"n", "o">>, <<"\t", "N", "o", " ">>,
      <<"y", "e">>, <<"n", " ", "o">>, <<"m", "a", "y", "b", "e">>, <<" ">> }

\* The characters of the answers of the specification of _ask_opt_in alone:
\* the letters of the four keywords in both cases, two kinds of whitespace,
\* and a letter of no keyword.
AnswerChars == {"y", "Y", "e", "E", "s", "S", "n", "N", "o", "O", " ", "\t", "x"}

\* Every answer of at most MaxAnswerLen characters, and those of RawAnswers.
Answers ==
    RawAnswers \cup UNION {[1 .. n -> AnswerChars] : n \in 0 .. MaxAnswerLen}

\* An _ask_opt_in that compares the answer as typed.
AskOptInAsTyped(raw) ==
    IF raw = <<"n">> \/ raw = <<"n", "o">> THEN DialogResult("DECLINED")
    ELSE IF raw = <<"y">> \/ raw = <<"y", "e", "s">> THEN DialogResult("ACCEPTED")
    ELSE DialogResult("TIMEOUT_REACHED")

\* _ask_opt_in, lines 58-65: the result for the answer typed.
AskOptIn(raw) ==
    LET answer == Strip(Lower(raw))
    IN  IF answer = <<"n">> \/ answer = <<"n", "o">> THEN DialogResult("DECLINED")
        ELSE IF answer = <<"y">> \/ answer = <<"y", "e", "s">>
        THEN DialogResult("ACCEPTED")
        ELSE DialogResult("TIMEOUT_REACHED")

\* An _ask_opt_in that confirms an answer it did not recognize as a decline.
ConfirmationOnEveryAnswer(result) ==
    IF result = DialogResult("ACCEPTED") THEN <<"accept">> ELSE <<"decline">>

\* _ask_opt_in, lines 60 and 63: the confirmation it prints, if any.
Confirmation(result) ==
    IF result = DialogResult("DECLINED") THEN <<"decline">>
    ELSE IF result = DialogResult("ACCEPTED") THEN <<"accept">>
    ELSE <<>>

\* A loop that tests the clock alone.
LoopConditionClockOnly(tp, ans) == tp < dialog_timeout

\* A loop that gives up one granularity before the budget is spent.
LoopConditionEarly(tp, ans) ==
    tp < dialog_timeout - Granularity /\ ans = DialogResult("TIMEOUT_REACHED")

\* The loop condition of opt_in_dialog, line 75.
LoopCondition(tp, ans) ==
    tp < dialog_timeout /\ ans = DialogResult("TIMEOUT_REACHED")

\* A re-prompt that gets a fresh full timeout.
FreshTimeout(tp) == dialog_timeout

\* The timeout of a re-prompt, line 76.
RemainingTimeout(tp) == dialog_timeout - tp

\* How long a call of input_with_timeout(timeout) may take.
Durations(timeout) == 0 .. (timeout + Granularity)

VARIABLES
    base, full, sub, isip,        \* the file system
    last,                         \* the last call of a store method: its frame
    before,                       \* the file system when that call began
    streak,                       \* 1: that call was an update_result that returned True; 2: it was
                                  \* an update_result that repeats such a call, with the same argument
    wrote,                        \* some update_result has returned True
    stored,                       \* the argument of the last update_result that returned True, while
                                  \* only reading methods were called since (NoArg otherwise)
    dpc,                          \* opt_in_dialog: "idle", "loop" (lines 75-77), "done"
    time_passed,                  \* its local time_passed
    timeout,                      \* the timeout handed to the last prompt
    question,                     \* the text of the last prompt: "full" or "short"
    raw,                          \* the last answer typed
    answer,                       \* its local answer
    closing,                      \* the closing messages printed in this run
    procs,                        \* the concurrent specification: each process's frame
    lastWriter,                   \* the argument of the call that made the last one-byte write
    calledAccept                  \* some process called update_result(ACCEPTED)

fsVars == <<base, full, sub, isip>>

histVars == <<last, before, streak, wrote, stored>>

dlgVars == <<dpc, time_passed, timeout, question, raw, answer, closing>>

procVars == <<procs, lastWriter, calledAccept>>

vars == <<fsVars, histVars, dlgVars, procVars>>

\* The file system as one value.
FS == [base |-> base, full |-> full, sub |-> sub, isip |-> isip]


(***************************************************************************)
(* Initial states.                                                         *)
(***************************************************************************)
InitFiles ==
    {AbsentFile}
    \cup [kind : {"file"}, content : InitContents, r : BOOLEAN, w : BOOLEAN]
    \cup [kind : {"dir"}, content : {<<>>}, r : BOOLEAN, w : BOOLEAN]

\* Every file system the program may find; the record path can only be
\* taken inside a directory.
InitFS ==
    /\ base \in BaseKinds
    /\ full \in BOOLEAN
    /\ sub \in (IF base = "missing" THEN {"absent"} ELSE SubKinds)
    /\ isip \in (IF sub \in {"dir", "dir_ro"} THEN InitFiles ELSE {AbsentFile})

InitHist ==
    /\ last = IdleFrame
    /\ before = [sub |-> sub, isip |-> isip]
    /\ streak = 0
    /\ wrote = FALSE
    /\ stored = NoArg

InitDialog ==
    /\ dpc = "idle"
    /\ time_passed = 0
    /\ timeout = 0
    /\ question = "none"
    /\ raw = <<>>
    /\ answer = DialogResult("TIMEOUT_REACHED")
    /\ closing = <<>>

Procs == 1 .. NumProcs

InitProcs ==
    /\ procs = [p \in Procs |-> IdleFrame]
    /\ lastWriter = NoArg
    /\ calledAccept = FALSE

Init == InitFS /\ InitHist /\ InitDialog /\ InitProcs

(***************************************************************************)
(* The store, one action per method, each call run to its end.             *)
(***************************************************************************)
\* The bookkeeping of a finished call r of op(arg).
Record(r, op, arg) ==
    /\ base' = r.fs.base
    /\ full' = r.fs.full
    /\ sub' = r.fs.sub
    /\ isip' = r.fs.isip
    /\ last' = r.f
    /\ before' = [sub |-> sub, isip |-> isip]
    /\ streak' =
          IF op # "update_result" THEN 0
          ELSE IF last.op = "update_result" /\ last.ret = "True" /\ last.arg = arg
          THEN 2
          ELSE IF r.f.ret = "True" THEN 1 ELSE 0
    /\ wrote' = (wrote \/ (op = "update_result" /\ r.f.ret = "True"))
    /\ stored' =
          IF op = "update_result"
          THEN IF r.f.ret = "True" THEN arg ELSE NoArg
          ELSE IF op \in {"check", "isip_is_empty", "get_info_from_isip"}
          THEN stored
          ELSE NoArg

StoreCall(op, arg, leader, tty, nb) ==
    /\ dpc = "idle"
    /\ Record(Run(FS, Frame(op, arg, leader, tty, nb)), op, arg)
    /\ UNCHANGED <<dlgVars, procVars>>

UpdateResult(result) == StoreCall("update_result", result, FALSE, FALSE, FALSE)

CreateNewIsipFile == StoreCall("create_new_isip_file", NoArg, FALSE, FALSE, FALSE)

CreateOrCheckIsipDir == StoreCall("create_or_check_isip_dir", NoArg, FALSE, FALSE, FALSE)

IsipIsEmpty == StoreCall("isip_is_empty", NoArg, FALSE, FALSE, FALSE)

GetInfoFromIsip == StoreCall("get_info_from_isip", NoArg, FALSE, FALSE, FALSE)

\* check reads three probes of the environment: _check_main_process,
\* _check_input_is_terminal, _check_run_in_notebook (lines 236-276).
Check(leader, tty, nb) == StoreCall("check", NoArg, leader, tty, nb)


(***************************************************************************)
(* opt_in_dialog, lines 72-82, one action per prompt.                      *)
(***************************************************************************)
\* A clock restarted at every prompt.
ElapsedSincePrompt(tp, d) == d

\* time_passed as measured at lines 74 and 77: the time since start_time,
\* which line 72 sets once; d is how long the prompt just made took.
Elapsed(tp, d) == tp + d

\* Lines 72-74: the first prompt, with the full question and timeout.
AskFirst(r, d) ==
    /\ dpc = "idle"
    /\ d \in Durations(dialog_timeout)
    /\ dpc' = "loop"
    /\ question' = "full"
    /\ timeout' = dialog_timeout
    /\ raw' = r
    /\ answer' = AskOptIn(r)
    /\ closing' = Confirmation(AskOptIn(r))
    /\ time_passed' = Elapsed(0, d)
    /\ UNCHANGED <<fsVars, histVars, procVars>>

\* Lines 75-77: a re-prompt, with the short message.
AskAgain(r, d) ==
    /\ dpc = "loop"
    /\ LoopCondition(time_passed, answer)
    /\ d \in Durations(RemainingTimeout(time_passed))
    /\ question' = "short"
    /\ timeout' = RemainingTimeout(time_passed)
    /\ raw' = r
    /\ answer' = AskOptIn(r)
    /\ closing' = closing \o Confirmation(AskOptIn(r))
    /\ time_passed' = Elapsed(time_passed, d)
    /\ UNCHANGED <<dpc, fsVars, histVars, procVars>>

\* Lines 79-82: the loop is left; the timer message, and the return.
DialogReturn ==
    /\ dpc = "loop"
    /\ ~LoopCondition(time_passed, answer)
    /\ dpc' = "done"
    /\ closing' = closing \o
          (IF answer = DialogResult("TIMEOUT_REACHED") THEN <<"timer">> ELSE <<>>)
    /\ UNCHANGED <<time_passed, timeout, question, raw, answer, fsVars, histVars, procVars>>

DialogFirst == \E r \in RawAnswers, d \in Durations(dialog_timeout) : AskFirst(r, d)

DialogAgain ==
    \E r \in RawAnswers, d \in Durations(RemainingTimeout(time_passed)) : AskAgain(r, d)

\* The dialog alone, on a file system it never touches.
DialogInit ==
    /\ base = "dir" /\ full = FALSE /\ sub = "absent" /\ isip = AbsentFile
    /\ InitHist /\ InitDialog /\ InitProcs

DialogNext == DialogFirst \/ DialogAgain \/ DialogReturn

DialogSpec == DialogInit /\ [][DialogNext]_vars

\* A few answers and durations, for the specifications in which the dialog
\* is one step among others: no answer, a yes, a no, garbage; at once, after
\* a second, after ten, at the timeout, at the timeout plus the granularity.
SampleAnswers == { <<>>, <<"Y">>, <<"n", "o">>, <<"m", "a", "y", "b", "e">> }

SampleDurations(t) == {0, 1, 10, t, t + Granularity} \cap Durations(t)

SampleFirst ==
    \E r \in SampleAnswers, d \in SampleDurations(dialog_timeout) : AskFirst(r, d)

SampleAgain ==
    \E r \in SampleAnswers, d \in SampleDurations(RemainingTimeout(time_passed)) :
        AskAgain(r, d)

\* A re-prompt during which the clock advances.
SampleAgainTick ==
    \E r \in SampleAnswers, d \in SampleDurations(RemainingTimeout(time_passed)) :
        d >= 1 /\ AskAgain(r, d)

LiveDialogNext == SampleFirst \/ SampleAgain \/ DialogReturn

\* The dialog with time passing: a blocking read takes time, so the clock
\* cannot stand still through infinitely many prompts, and a loop that is
\* over returns.
LiveDialogSpec ==
    /\ DialogInit
    /\ [][LiveDialogNext]_vars
    /\ WF_vars(SampleAgainTick)
    /\ WF_vars(DialogReturn)

\* _ask_opt_in alone: one prompt, answered at once with any answer, and the
\* return of the dialog.
AnswerFirst == dpc = "idle" /\ \E r \in Answers : AskFirst(r, 0)

AskNext == AnswerFirst \/ DialogReturn

AskSpec == DialogInit /\ [][AskNext]_vars

(***************************************************************************)
(* The caller (section 2 of the specification): the gating check; when it  *)
(* answers NO_FILE, the dialog; then the outcome written back through the  *)
(* store.                                                                  *)
(***************************************************************************)
\* The caller starts the dialog after a check that returned NO_FILE.
FlowAsk ==
    /\ last.op = "check" /\ last.ret = "NO_FILE"
    /\ SampleFirst

\* The caller hands the value opt_in_dialog returned to update_result.
WriteBack ==
    /\ dpc = "done"
    /\ LET r == Run(FS, Frame("update_result", answer, FALSE, FALSE, FALSE))
       IN  Record(r, "update_result", answer)
    /\ dpc' = "idle"
    /\ time_passed' = 0
    /\ timeout' = 0
    /\ question' = "none"
    /\ raw' = <<>>
    /\ answer' = DialogResult("TIMEOUT_REACHED")
    /\ closing' = <<>>
    /\ UNCHANGED procVars

Next ==
    \/ \E result \in ISIPCheckResults : UpdateResult(result)
    \/ CreateNewIsipFile
    \/ CreateOrCheckIsipDir
    \/ IsipIsEmpty
    \/ GetInfoFromIsip
    \/ \E leader, tty, nb \in BOOLEAN : Check(leader, tty, nb)
    \/ FlowAsk
    \/ SampleAgain
    \/ DialogReturn
    \/ WriteBack

Spec == Init /\ [][Next]_vars

\* The same calls on a file system in which no record file exists yet.
FreshInit == Init /\ isip = AbsentFile

FreshSpec == FreshInit /\ [][Next]_vars


(***************************************************************************)
(* Several processes on one record file, with no lock: each makes one call *)
(* of update_result or of check, one line at a time, in any interleaving.  *)
(***************************************************************************)
\* The record files the processes may find.
ConcFiles ==
    {AbsentFile}
    \cup [kind : {"file"},
          content : {<<"1">>, <<"m", "a", "y", "b", "e">>},
          r : {TRUE}, w : {TRUE}]
    \cup {[kind |-> "file", content |-> <<"1">>, r |-> FALSE, w |-> TRUE]}

\* The base directory is one: without it no call gets as far as a path.
ConcInit ==
    /\ base = "dir"
    /\ full \in BOOLEAN
    /\ sub \in {"absent", "file", "dir"}
    /\ isip \in (IF sub = "dir" THEN ConcFiles ELSE {AbsentFile})
    /\ InitHist /\ InitDialog /\ InitProcs

\* Process p calls update_result(result).
ProcUpdateResult(p, result) ==
    /\ procs[p].pc = "idle"
    /\ procs' = [procs EXCEPT ![p] = Frame("update_result", result, FALSE, FALSE, FALSE)]
    /\ calledAccept' = (calledAccept \/ result = ISIPCheckResult("ACCEPTED"))
    /\ UNCHANGED <<lastWriter, fsVars, histVars, dlgVars>>

\* Process p calls check.
ProcCheck(p, leader, tty, nb) ==
    /\ procs[p].pc = "idle"
    /\ procs' = [procs EXCEPT ![p] = Frame("check", NoArg, leader, tty, nb)]
    /\ UNCHANGED <<lastWriter, calledAccept, fsVars, histVars, dlgVars>>

\* Process p runs the line it is at.
ProcStep(p) ==
    /\ procs[p].pc \notin {"idle", "done"}
    /\ LET n == Step(FS, procs[p])
       IN  /\ base' = n.fs.base
           /\ full' = n.fs.full
           /\ sub' = n.fs.sub
           /\ isip' = n.fs.isip
           /\ procs' = [procs EXCEPT ![p] = n.f]
           /\ lastWriter' =
                 IF procs[p].pc = "u204" /\ n.f.ret = "True"
                 THEN procs[p].arg ELSE lastWriter
    /\ UNCHANGED <<calledAccept, histVars, dlgVars>>

ConcNext ==
    \E p \in Procs :
        \/ \E result \in {ISIPCheckResult("ACCEPTED"), ISIPCheckResult("DECLINED")} :
              ProcUpdateResult(p, result)
        \/ \E leader \in BOOLEAN : ProcCheck(p, leader, TRUE, FALSE)
        \/ ProcStep(p)

ConcSpec == ConcInit /\ [][ConcNext]_vars

(***************************************************************************)
(* The claims.                                                             *)
(***************************************************************************)
\* The answers of RawAnswers that are a yes and those that are a no, by
\* enumeration.
YesForms == { <<"y">>, <<"Y">>, <<"y", "e", "s">>, <<" ", "Y", "E", "S", "\n">> }

NoForms == { <<"n">>, <<"N">>, <<"n", "o">>, <<"\t", "N", "o", " ">> }

\* C1: whatever is answered, and every prompt returning no later than its
\* timeout plus the granularity, the time from the first prompt to the
\* return of opt_in_dialog is at most dialog_timeout plus one granularity.
C1_TotalTimeBounded ==
    dpc \in {"loop", "done"} => time_passed <= dialog_timeout + Granularity

\* C1: a dialog that returned at the bound, after a re-prompt.
C1_Witness ==
    /\ dpc = "done"
    /\ question = "short"
    /\ time_passed = dialog_timeout + Granularity

\* C2: once a prompt, the first or a later one, is answered y/yes or n/no,
\* the only step the dialog takes is its return, with ACCEPTED for a yes and
\* DECLINED for a no: no other prompt is made.
C2_ValidAnswerEndsLoop ==
    [][ (dpc = "loop" /\ raw \in YesForms \cup NoForms)
            => /\ dpc' = "done"
               /\ answer' = (IF raw \in YesForms THEN DialogResult("ACCEPTED")
                             ELSE DialogResult("DECLINED"))
               /\ UNCHANGED <<raw, question, timeout, time_passed>> ]_vars

\* C2: a dialog that returned ACCEPTED on a re-prompt, after answers it did
\* not recognize.
C2_Witness ==
    /\ dpc = "done"
    /\ question = "short"
    /\ raw \in YesForms
    /\ answer = DialogResult("ACCEPTED")

\* C3: opt_in_dialog terminates, and when the answers stay unrecognized it
\* returns TIMEOUT_REACHED: a dialog that is in its loop eventually returns.
C3_DialogTerminates ==
    (dpc = "loop") ~>
        (dpc = "done" /\ (raw \notin YesForms \cup NoForms
                            => answer = DialogResult("TIMEOUT_REACHED")))

\* C3: a dialog that returned TIMEOUT_REACHED after garbage at a re-prompt.
C3_Witness ==
    /\ dpc = "done"
    /\ question = "short"
    /\ raw = <<"m", "a", "y", "b", "e">>
    /\ answer = DialogResult("TIMEOUT_REACHED")


\* What the round trip promises for the argument a of update_result: the
\* content read back and the result of check.
ExpectedContent(a) == IF a.name = "ACCEPTED" THEN <<"1">> ELSE <<"0">>

ExpectedCheck(a) == IF a.name = "ACCEPTED" THEN "ACCEPTED" ELSE "DECLINED"

\* The contents whose first line, stripped, is "1", by enumeration.
AcceptContents == { <<"1">>, <<"1", "\n">>, <<" ", "1", " ">> }

\* C4, as stated: after an update_result(result) that returned True, with
\* result an ISIPCheckResult, get_info_from_isip returns (True, "1") and
\* check returns ACCEPTED when result was ACCEPTED, and (True, "0") and
\* DECLINED otherwise, whatever the record file was before.
C4_RoundTrip ==
    stored \in ISIPCheckResults =>
        /\ last.op = "get_info_from_isip" =>
              last.ret = "True" /\ last.content = ExpectedContent(stored)
        /\ last.op = "check" => last.ret = ExpectedCheck(stored)

\* C4, amended: the same, for a record file the process may read.
C4_RoundTripReadable ==
    (stored \in ISIPCheckResults /\ isip.r) =>
        /\ last.op = "get_info_from_isip" =>
              last.ret = "True" /\ last.content = ExpectedContent(stored)
        /\ last.op = "check" => last.ret = ExpectedCheck(stored)

\* C4: a check that returned ACCEPTED after update_result(ACCEPTED) over a
\* record file that held malformed text.
C4_Witness ==
    /\ stored = ISIPCheckResult("ACCEPTED")
    /\ last.op = "check"
    /\ last.ret = "ACCEPTED"
    /\ isip.content = <<"1">>

\* C5: when check returned NO_FILE and the caller ran the dialog and handed
\* its outcome to update_result, which returned True, the next check returns
\* ACCEPTED for the outcome ACCEPTED and DECLINED for DECLINED and
\* TIMEOUT_REACHED.
C5_FlowStoresOutcome ==
    (stored \in DialogResults /\ last.op = "check") =>
        last.ret = ExpectedCheck(stored)

\* C6: with no record file, a check that returns returns NO_FILE when the
\* process is the session leader, stdin is a terminal and there is no
\* notebook, and DECLINED for every other combination of the probes; with a
\* record file it never returns NO_FILE.
C6_GateDecides ==
    (last.op = "check" /\ last.ret # "raise") =>
        /\ ~IsipExists(FS) =>
              last.ret = (IF last.leader /\ last.tty /\ ~last.nb
                          THEN "NO_FILE" ELSE "DECLINED")
        /\ last.ret = "NO_FILE" => ~IsipExists(FS)

\* C6: a check that declined, with no record file, because of the notebook.
C6_Witness ==
    /\ last.op = "check"
    /\ ~IsipExists(FS)
    /\ last.leader /\ last.tty /\ last.nb
    /\ last.ret = "DECLINED"

\* C7: with a record file, check does not raise and returns ACCEPTED or
\* DECLINED; ACCEPTED exactly when the file can be read and its first line,
\* stripped, is "1".
C7_FailsClosed ==
    (last.op = "check" /\ IsipExists(FS)) =>
        /\ last.ret \in {"ACCEPTED", "DECLINED"}
        /\ last.ret = "ACCEPTED" <=>
              (isip.kind = "file" /\ isip.r /\ isip.content \in AcceptContents)

\* C7: a check that declined over the content "maybe".
C7_Witness ==
    /\ last.op = "check"
    /\ isip.kind = "file" /\ isip.r
    /\ isip.content = <<"m", "a", "y", "b", "e">>
    /\ last.ret = "DECLINED"

\* C8: once an update_result has returned True the record file exists, and
\* every later check returns ACCEPTED or DECLINED, never NO_FILE.
C8_StoredAnswerConsulted ==
    wrote =>
        /\ IsipExists(FS)
        /\ last.op = "check" => last.ret \in {"ACCEPTED", "DECLINED"}

\* C8: a check after a successful update_result, in an environment in which
\* the dialog could be shown, over a record file emptied since.
C8_Witness ==
    /\ wrote
    /\ last.op = "check"
    /\ last.leader /\ last.tty /\ ~last.nb
    /\ isip.content = <<>>

\* C9: an update_result that repeats the call before it, which returned
\* True, with the same argument, returns True and leaves the record file
\* with the content it had, one "0" or "1"; isip_is_empty is then False.
C9_UpdateIdempotent ==
    streak = 2 =>
        /\ last.ret = "True"
        /\ isip.content = before.isip.content
        /\ isip.content \in {<<"0">>, <<"1">>}
        /\ Call(FS, "isip_is_empty", NoArg, FALSE, FALSE, FALSE).ret = "False"

\* C9: update_result(ACCEPTED) called twice in a row.
C9_Witness ==
    /\ streak = 2
    /\ last.arg = ISIPCheckResult("ACCEPTED")
    /\ isip.content = <<"1">>


\* The processes that called update_result, and those that called check.
Writers == {p \in Procs : procs[p].op = "update_result"}

Checkers == {p \in Procs : procs[p].op = "check"}

\* C10: in every interleaving of the lines of update_result and check run
\* by several processes on one record file: no call raises; a check that
\* found the file returns ACCEPTED or DECLINED; a check returns ACCEPTED only
\* if a process called update_result(ACCEPTED) or the file held an accepted
\* answer from the start; and once every writer has returned, the file on
\* which a one-byte write was made holds "1" or "0", the byte of the call
\* that wrote last.
C10_RacesTolerated ==
    /\ \A p \in Procs : procs[p].ret # "raise"
    /\ \A p \in Checkers :
          procs[p].pc = "done" =>
              /\ procs[p].found => procs[p].ret \in {"ACCEPTED", "DECLINED"}
              /\ procs[p].ret = "ACCEPTED" =>
                    (calledAccept \/ before.isip.content \in AcceptContents)
    /\ ((\A p \in Writers : procs[p].pc = "done") /\ lastWriter # NoArg) =>
          isip.content = ExpectedContent(lastWriter)

\* C10: two writers with different answers raced from a missing directory:
\* one lost the race for the directory and returned False, the other wrote.
C10_Witness ==
    /\ before.sub = "absent"
    /\ ~full
    /\ \E p, q \in Writers :
          /\ procs[p].pc = "done" /\ procs[p].ret = "False"
          /\ procs[q].pc = "done" /\ procs[q].ret = "True"
          /\ procs[p].arg # procs[q].arg
    /\ isip.content = ExpectedContent(lastWriter)


\* C11: isip_is_empty returns True exactly when the record file exists and
\* has size zero; with no record file it returns False, as a value.
C11_EmptyIffZeroSize ==
    (last.op = "isip_is_empty" /\ ~BaseDirRaises(FS)) =>
        last.ret = Bool(IsipExists(FS) /\ FileSize(isip) = 0)

\* The sub-directory states in which create_or_check_isip_dir cannot end
\* with a writable directory: a non-directory that cannot be removed, a
\* dangling link, a directory without write access.
BadSubKinds == {"locked", "link", "dir_ro"}

\* C12: create_or_check_isip_dir, create_new_isip_file and update_result
\* never raise; they return False when there is no base directory, when it
\* is not writable, when the sub-directory cannot be removed or created, and
\* when the record file cannot be created or written.
C12_SoftFailuresReturnFalse ==
    last.op \in {"create_or_check_isip_dir", "create_new_isip_file", "update_result"} =>
        /\ last.ret # "raise"
        /\ (/\ last.op \in {"create_or_check_isip_dir", "create_new_isip_file"}
            /\ (base # "dir" \/ before.sub \in BadSubKinds))
              => last.ret = "False"
        /\ (/\ last.op = "update_result"
            /\ \/ ~last.found /\ (base # "dir" \/ before.sub \in BadSubKinds)
               \/ last.found /\ (~before.isip.w \/ before.isip.kind = "dir")
               \/ full)
              => last.ret = "False"

\* The other case of a letter of the keywords.
OtherCase(c) ==
    CASE c = "y" -> "Y" [] c = "e" -> "E" [] c = "s" -> "S"
      [] c = "n" -> "N" [] c = "o" -> "O" [] OTHER -> c

\* The answer a is word in some mix of cases between two runs of whitespace.
IsForm(a, word) ==
    \E i \in 0 .. Len(a) :
        /\ i + Len(word) <= Len(a)
        /\ \A k \in 1 .. Len(a) :
              IF k <= i \/ k > i + Len(word) THEN a[k] \in {" ", "\t", "\n"}
              ELSE a[k] \in {word[k - i], OtherCase(word[k - i])}

\* C13: _ask_opt_in returns ACCEPTED for "y" and "yes", DECLINED for "n" and
\* "no", in every mix of cases and between any whitespace, and
\* TIMEOUT_REACHED for every other answer, the empty one included.
C13_AnswerNormalized ==
    dpc \in {"loop", "done"} =>
        answer = (IF IsForm(raw, <<"y">>) \/ IsForm(raw, <<"y", "e", "s">>)
                  THEN DialogResult("ACCEPTED")
                  ELSE IF IsForm(raw, <<"n">>) \/ IsForm(raw, <<"n", "o">>)
                  THEN DialogResult("DECLINED")
                  ELSE DialogResult("TIMEOUT_REACHED"))

\* C13: a yes in mixed case after a space was taken for ACCEPTED, and the
\* dialog returned it.
C13_Witness ==
    /\ dpc = "done"
    /\ raw = <<" ", "Y", "e", "S">>
    /\ answer = DialogResult("ACCEPTED")

\* C14: the first prompt shows the full question with the timeout
\* dialog_timeout; every re-prompt shows the short message with the timeout
\* dialog_timeout minus the time passed since the first prompt, which is
\* positive, at most dialog_timeout and at most the timeout of the prompt
\* before; the return makes no prompt.
C14_TimeoutShrinks ==
    [][ /\ (dpc = "idle" /\ dpc' = "loop") =>
              question' = "full" /\ timeout' = dialog_timeout
        /\ (dpc = "loop" /\ dpc' = "loop") =>
              /\ question' = "short"
              /\ timeout' = dialog_timeout - time_passed
              /\ timeout' > 0
              /\ timeout' <= dialog_timeout
              /\ timeout' <= timeout
        /\ dpc' = "done" => UNCHANGED <<question, timeout>> ]_vars

\* C14: a re-prompt made in the last second of the dialog, with a timeout
\* of one second.
C14_Witness ==
    /\ dpc = "loop"
    /\ question = "short"
    /\ timeout = 1

\* The answer a is one that _ask_opt_in is to recognize.
Recognized(a) ==
    \/ IsForm(a, <<"y">>) \/ IsForm(a, <<"y", "e", "s">>)
    \/ IsForm(a, <<"n">>) \/ IsForm(a, <<"n", "o">>)

\* C15: opt_in_dialog returns TIMEOUT_REACHED only when the last answer was
\* not recognized and the time passed since the first prompt is at least
\* dialog_timeout; while less time has passed, the step after an answer that
\* was not recognized is another prompt, with the short message, never the
\* return.
C15_TimedOutOnlyAtBudget ==
    [][ /\ (dpc' = "done" /\ answer' = DialogResult("TIMEOUT_REACHED")) =>
              ~Recognized(raw') /\ time_passed' >= dialog_timeout
        /\ (dpc = "loop" /\ ~Recognized(raw) /\ time_passed < dialog_timeout) =>
              dpc' = "loop" /\ question' = "short" ]_vars

\* C15: a dialog that returned TIMEOUT_REACHED after an answer of one space,
\* given when the budget was just spent.
C15_Witness ==
    /\ dpc = "done"
    /\ answer = DialogResult("TIMEOUT_REACHED")
    /\ raw = <<" ">>
    /\ time_passed = dialog_timeout

\* The record file is absent, empty, "0" or "1".
RecordStateValid(f) ==
    \/ f.kind = "absent"
    \/ f.kind = "file" /\ f.content \in {<<>>, <<"0">>, <<"1">>}

\* C16: starting with no record file, through every sequence of calls the
\* record file is absent, empty, "0" or "1", never longer than one
\* character, and once it exists no call makes it absent again.
C16_RecordStateInvariant ==
    [][ /\ RecordStateValid(isip) /\ RecordStateValid(isip')
        /\ Len(isip'.content) <= 1
        /\ IsipExists(FS) =>
              IsipExists([base |-> base', full |-> full', sub |-> sub', isip |-> isip']) ]_vars

\* C16: a record file that came to hold "1" and was emptied, not removed, by
\* create_new_isip_file.
C16_Witness ==
    /\ last.op = "create_new_isip_file"
    /\ before.isip.content = <<"1">>
    /\ isip.kind = "file"
    /\ isip.content = <<>>

\* C17: create_or_check_isip_dir returns True only when, at its return, the
\* sub-directory path is a directory with write access, in a base directory
\* with write access; when the path was a non-directory and the call
\* returned True, a new, empty directory has taken its place; when the path
\* cannot be removed or the directory cannot be created, the call returns
\* False and the path is as it was.
C17_DirReadyOnTrue ==
    last.op = "create_or_check_isip_dir" =>
        /\ last.ret = "True" => (base = "dir" /\ sub = "dir")
        /\ (last.ret = "True" /\ before.sub = "file") =>
              (sub = "dir" /\ isip.kind = "absent")
        /\ (last.ret # "raise" /\ before.sub \in {"locked", "link"}) =>
              (last.ret = "False" /\ sub = before.sub)

\* C17: a call that found a file at the sub-directory path, removed it, made
\* the directory and returned True.
C17_Witness ==
    /\ last.op = "create_or_check_isip_dir"
    /\ before.sub = "file"
    /\ sub = "dir"
    /\ last.ret = "True"

\* C18: an update_result that returned False left the record file as it
\* was before the call: absent, empty, or with the same content.
C18_FailedWriteNoEffect ==
    (last.op = "update_result" /\ last.ret = "False") =>
        /\ isip.kind = before.isip.kind
        /\ isip.content = before.isip.content

\* C19: a call of check changes nothing in the file system and makes no
\* prompt, whatever the record file and the environment are, so that a check
\* made right after it, in the same environment, returns the same result.
C19_CheckReadOnly ==
    [][ (last'.op = "check" /\ histVars' # histVars) =>
            /\ UNCHANGED <<fsVars, dlgVars>>
            /\ before' = [sub |-> sub', isip |-> isip']
            /\ Call(FS', "check", NoArg, last'.leader, last'.tty, last'.nb).ret = last'.ret
      ]_vars

\* C19: a check that returned ACCEPTED over an answer written between
\* spaces, and left it so.
C19_Witness ==
    /\ last.op = "check"
    /\ last.ret = "ACCEPTED"
    /\ before.isip.content = <<" ", "1", " ">>
    /\ isip.content = <<" ", "1", " ">>

\* The closing message that matches a result of the dialog.
ClosingFor(result) ==
    CASE result = DialogResult("ACCEPTED") -> "accept"
      [] result = DialogResult("DECLINED") -> "decline"
      [] OTHER -> "timer"

\* C20: a dialog that has returned has printed one closing message, the one
\* that matches its result; as long as the answers are not recognized and
\* the dialog goes on, none has been printed.
C20_OneClosingMessage ==
    /\ dpc = "done" => closing = <<ClosingFor(answer)>>
    /\ (dpc = "loop" /\ answer = DialogResult("TIMEOUT_REACHED")) => closing = <<>>
    /\ (dpc = "loop" /\ answer # DialogResult("TIMEOUT_REACHED")) =>
          closing = <<ClosingFor(answer)>>

\* C20: a dialog that returned DECLINED on a re-prompt, with the decline
\* confirmation alone.
C20_Witness ==
    /\ dpc = "done"
    /\ question = "short"
    /\ raw = <<"\t", "N", "o", " ">>
    /\ answer = DialogResult("DECLINED")
    /\ closing = <<"decline">>

=============================================================================
